---------------------------- MODULE Spec2Model ----------------------------
(***************************************************************************)
(* Model of the "top contributor" extension: the attribution parser        *)
(* (blameParser.ts), the metrics aggregator (metrics.ts), the contributor  *)
(* cache (ContributorCache), the git runner (gitRunner.ts) and the request *)
(* handlers of extension.ts.                                               *)
(*                                                                         *)
(* A JavaScript string is a sequence of one-character strings; a cache key *)
(* is such a sequence as well, so that startsWith is a prefix test.        *)
(***************************************************************************)
EXTENDS Integers, Sequences, FiniteSets, TLC

(***************************************************************************)
(* Strings                                                                 *)
(***************************************************************************)

\* The white space String.prototype.trim removes, over the model's alphabet.
IsWs(c) == c \in {" ", "\t", "\n", "\r"}

RECURSIVE TrimStart(_)
TrimStart(s) ==
    IF s = <<>> THEN <<>>
    ELSE IF IsWs(Head(s)) THEN TrimStart(Tail(s)) ELSE s

RECURSIVE TrimEnd(_)
TrimEnd(s) ==
    IF s = <<>> THEN <<>>
    ELSE IF IsWs(s[Len(s)]) THEN TrimEnd(SubSeq(s, 1, Len(s) - 1)) ELSE s

\* String.prototype.trim
Trim(s) == TrimEnd(TrimStart(s))

\* String.prototype.startsWith
StartsWith(s, p) == Len(p) <= Len(s) /\ SubSeq(s, 1, Len(p)) = p

\* String.prototype.includes
Includes(s, sub) ==
    \E i \in 1..(Len(s) - Len(sub) + 1) : SubSeq(s, i, i + Len(sub) - 1) = sub

\* String.prototype.substring(n): the string without its first n characters.
Substring(s, n) == SubSeq(s, n + 1, Len(s))

\* String.prototype.split(sep) for a one-character separator: the pieces
\* between the separators, so the empty string splits into one empty string.
Split(s, sep) ==
    LET at == {i \in 1..Len(s) : s[i] = sep}
        pos(k) == CHOOSE i \in at : Cardinality({j \in at : j < i}) = k - 1
        n == Cardinality(at) + 1
    IN  [k \in 1..n |->
            SubSeq(s, IF k = 1 THEN 1 ELSE pos(k - 1) + 1,
                      IF k = n THEN Len(s) ELSE pos(k) - 1)]

UpperLetters ==
    <<"A", "B", "C", "D", "E", "F", "G", "H", "I", "J", "K", "L", "M",
      "N", "O", "P", "Q", "R", "S", "T", "U", "V", "W", "X", "Y", "Z">>

LowerLetters ==
    <<"a", "b", "c", "d", "e", "f", "g", "h", "i", "j", "k", "l", "m",
      "n", "o", "p", "q", "r", "s", "t", "u", "v", "w", "x", "y", "z">>

LowerChar(c) ==
    IF \E i \in 1..26 : UpperLetters[i] = c
    THEN LowerLetters[CHOOSE i \in 1..26 : UpperLetters[i] = c]
    ELSE c

\* String.prototype.toLowerCase, over the model's alphabet.
ToLowerCase(s) == [i \in 1..Len(s) |-> LowerChar(s[i])]

IsDigit(c) == c \in {"0", "1", "2", "3", "4", "5", "6", "7", "8", "9"}

DigitVal(c) ==
    CASE c = "0" -> 0 [] c = "1" -> 1 [] c = "2" -> 2 [] c = "3" -> 3
      [] c = "4" -> 4 [] c = "5" -> 5 [] c = "6" -> 6 [] c = "7" -> 7
      [] c = "8" -> 8 [] c = "9" -> 9

DigitChar(d) == <<"0", "1", "2", "3", "4", "5", "6", "7", "8", "9">>[d + 1]

\* Number to decimal string, as a template literal `${n}` prints a
\* non-negative integer.
RECURSIVE Digits(_)
Digits(n) ==
    IF n < 10 THEN <<DigitChar(n)>>
    ELSE Append(Digits(n \div 10), DigitChar(n % 10))

IsHex(c) == IsDigit(c) \/ c \in {"a", "b", "c", "d", "e", "f"}

\* The length of a revision identifier, /^[0-9a-f]{40}/.
HashLen == 40

\* A number or NaN: NaN compares false with everything.
NaN == [nan |-> TRUE, val |-> 0]
Num(n) == [nan |-> FALSE, val |-> n]

RECURSIVE DigitsValue(_, _)
DigitsValue(s, acc) ==
    IF s = <<>> \/ ~IsDigit(Head(s)) THEN acc
    ELSE DigitsValue(Tail(s), 10 * acc + DigitVal(Head(s)))

\* parseInt(s, 10); s is "undefined" when the array has no such element,
\* which the caller passes as the empty string (both give NaN).
parseInt(s) ==
    LET t == TrimStart(s)
        neg == t # <<>> /\ Head(t) = "-"
        u == IF t # <<>> /\ Head(t) \in {"-", "+"} THEN Tail(t) ELSE t
    IN  IF u = <<>> \/ ~IsDigit(Head(u)) THEN NaN
        ELSE Num((IF neg THEN -1 ELSE 1) * DigitsValue(u, 0))

(***************************************************************************)
(* blameParser.ts: BlameParser                                             *)
(***************************************************************************)

\* The label of uncommitted lines (spelled as in the source).
NotCommitted ==
    <<"n", "o", "t", " ", "c", "o", "m", "m", "i", "t", "e", "d", " ",
      "y", "e", "t">>

Unknown == <<"U", "n", "k", "n", "o", "w", "n">>

\* The two markers of git blame that normalizeAuthor looks for.
MarkNotCommittedYet ==
    <<"n", "o", "t", " ", "c", "o", "m", "m", "i", "t", "t", "e", "d", " ",
      "y", "e", "t">>

MarkExternalFile ==
    <<"e", "x", "t", "e", "r", "n", "a", "l", " ", "f", "i", "l", "e">>

normalizeAuthor(author) ==
    LET normalized == Trim(author)
        lower == ToLowerCase(normalized)
    IN  IF normalized = <<>> THEN Unknown
        ELSE IF Includes(lower, MarkNotCommittedYet)
                \/ Includes(lower, MarkExternalFile)
             THEN NotCommitted
        ELSE normalized

KwAuthor == <<"a", "u", "t", "h", "o", "r", " ">>
KwAuthorMail == <<"a", "u", "t", "h", "o", "r", "-", "m", "a", "i", "l", " ">>

\* The metadata keys the parser skips (blameParser.ts:94-103).
SkippedKeys ==
    { <<"a", "u", "t", "h", "o", "r", "-", "t", "i", "m", "e", " ">>,
      <<"a", "u", "t", "h", "o", "r", "-", "t", "z", " ">>,
      <<"c", "o", "m", "m", "i", "t", "t", "e", "r", " ">>,
      <<"c", "o", "m", "m", "i", "t", "t", "e", "r", "-", "m", "a", "i", "l", " ">>,
      <<"c", "o", "m", "m", "i", "t", "t", "e", "r", "-", "t", "i", "m", "e", " ">>,
      <<"c", "o", "m", "m", "i", "t", "t", "e", "r", "-", "t", "z", " ">>,
      <<"s", "u", "m", "m", "a", "r", "y", " ">>,
      <<"b", "o", "u", "n", "d", "a", "r", "y">>,
      <<"f", "i", "l", "e", "n", "a", "m", "e", " ">>,
      <<"p", "r", "e", "v", "i", "o", "u", "s", " ">> }

\* line.match(/^[0-9a-f]{40}/)
IsCommitLine(line) ==
    Len(line) >= HashLen /\ \A i \in 1..HashLen : IsHex(line[i])

\* email.replace(/^<|>$/g, '')
StripAngles(email) ==
    LET a == IF email # <<>> /\ Head(email) = "<" THEN Tail(email) ELSE email
    IN  IF a # <<>> /\ a[Len(a)] = ">" THEN SubSeq(a, 1, Len(a) - 1) ELSE a

\* The parser's variables before the loop (blameParser.ts:56-61).
ParseStart ==
    [result |-> <<>>, currentAuthor |-> <<>>, currentLineNumber |-> Num(0)]

\* The loop's iteration without the test of the line number against the
\* number of lines of the file.
ParseLineUnbounded(st, line, nFileLines) ==
    IF Trim(line) = <<>> THEN st
    ELSE IF IsCommitLine(line) THEN
        LET parts == Split(line, " ")
        IN  [st EXCEPT !.currentLineNumber =
                parseInt(IF Len(parts) >= 3 THEN parts[3] ELSE <<>>)]
    ELSE IF StartsWith(line, KwAuthor) THEN
        [st EXCEPT !.currentAuthor = Substring(line, 7)]
    ELSE IF StartsWith(line, KwAuthorMail) THEN
        IF st.currentAuthor = <<>>
        THEN [st EXCEPT !.currentAuthor = StripAngles(Substring(line, 12))]
        ELSE st
    ELSE IF \E k \in SkippedKeys : StartsWith(line, k) THEN st
    ELSE IF StartsWith(line, <<"\t">>) THEN
        LET n == st.currentLineNumber
            accept == st.currentAuthor # <<>> /\ ~n.nan /\ n.val > 0
        IN  [result |->
                IF accept
                THEN Append(st.result,
                            [author |-> normalizeAuthor(st.currentAuthor),
                             lineNumber |-> n.val,
                             content |-> Substring(line, 1)])
                ELSE st.result,
             currentAuthor |-> <<>>,
             currentLineNumber |-> Num(0)]
    ELSE st

\* One iteration of the loop over the lines of the blame output
\* (blameParser.ts:63-128); nFileLines is fileLines.length.
ParseLine(st, line, nFileLines) ==
    IF Trim(line) = <<>> THEN st
    ELSE IF IsCommitLine(line) THEN
        LET parts == Split(line, " ")
        IN  [st EXCEPT !.currentLineNumber =
                parseInt(IF Len(parts) >= 3 THEN parts[3] ELSE <<>>)]
    ELSE IF StartsWith(line, KwAuthor) THEN
        [st EXCEPT !.currentAuthor = Substring(line, 7)]
    ELSE IF StartsWith(line, KwAuthorMail) THEN
        IF st.currentAuthor = <<>>
        THEN [st EXCEPT !.currentAuthor = StripAngles(Substring(line, 12))]
        ELSE st
    ELSE IF \E k \in SkippedKeys : StartsWith(line, k) THEN st
    ELSE IF StartsWith(line, <<"\t">>) THEN
        LET content == Substring(line, 1)
            n == st.currentLineNumber
            accept == /\ st.currentAuthor # <<>>
                      /\ ~n.nan /\ n.val > 0
                      /\ n.val <= nFileLines
        IN  [result |->
                IF accept
                THEN Append(st.result,
                            [author |-> normalizeAuthor(st.currentAuthor),
                             lineNumber |-> n.val,
                             content |-> content])
                ELSE st.result,
             currentAuthor |-> <<>>,
             currentLineNumber |-> Num(0)]
    ELSE st

RECURSIVE ParseLoop(_, _, _)
ParseLoop(st, lines, nFileLines) ==
    IF lines = <<>> THEN st
    ELSE ParseLoop(ParseLine(st, Head(lines), nFileLines), Tail(lines),
                   nFileLines)

\* The records the loop collects, before the fallback.
ParsedBlocks(blameOutput, fileContent) ==
    ParseLoop(ParseStart, Split(blameOutput, "\n"),
              Len(Split(fileContent, "\n"))).result

\* Fallback with the loop index as the line number (i instead of i + 1).
FallbackFromZero(fileContent) ==
    LET fileLines == Split(fileContent, "\n")
    IN  [i \in 1..Len(fileLines) |->
            [author |-> NotCommitted, lineNumber |-> i - 1,
             content |-> fileLines[i]]]

\* The fallback for a file without parsed records (blameParser.ts:130-141).
Fallback(fileContent) ==
    LET fileLines == Split(fileContent, "\n")
    IN  [i \in 1..Len(fileLines) |->
            [author |-> NotCommitted, lineNumber |-> i,
             content |-> fileLines[i]]]

parseBlameOutput(blameOutput, fileContent) ==
    LET result == ParsedBlocks(blameOutput, fileContent)
    IN  IF result = <<>> /\ Trim(fileContent) # <<>>
        THEN Fallback(fileContent)
        ELSE result

(***************************************************************************)
(* metrics.ts: MetricsCalculator                                           *)
(***************************************************************************)

\* isBlankLine: content.trim().length === 0
isBlankLine(content) == Len(Trim(content)) = 0

\* Index of the author in the Map's entries (in insertion order), or 0.
AuthorIndex(stats, author) ==
    IF \E i \in 1..Len(stats) : stats[i].author = author
    THEN CHOOSE i \in 1..Len(stats) : stats[i].author = author
    ELSE 0

\* The grouping step without the blank-line test.
AddLineCountsBlank(stats, lineData, ignoreBlankLines) ==
    LET i == AuthorIndex(stats, lineData.author)
    IN  IF i = 0
        THEN Append(stats, [author |-> lineData.author, lines |-> 1,
                            characters |-> Len(lineData.content)])
        ELSE [stats EXCEPT
                ![i].lines = @ + 1,
                ![i].characters = @ + Len(lineData.content)]

\* One iteration of the grouping loop (metrics.ts:24-36); authorStats is the
\* Map as the sequence of its entries in insertion order.
AddLine(stats, lineData, ignoreBlankLines) ==
    IF ignoreBlankLines /\ isBlankLine(lineData.content) THEN stats
    ELSE LET i == AuthorIndex(stats, lineData.author)
         IN  IF i = 0
             THEN Append(stats, [author |-> lineData.author, lines |-> 1,
                                 characters |-> Len(lineData.content)])
             ELSE [stats EXCEPT
                     ![i].lines = @ + 1,
                     ![i].characters = @ + Len(lineData.content)]

RECURSIVE GroupByAuthor(_, _, _)
GroupByAuthor(stats, blameData, ignoreBlankLines) ==
    IF blameData = <<>> THEN stats
    ELSE GroupByAuthor(AddLine(stats, Head(blameData), ignoreBlankLines),
                       Tail(blameData), ignoreBlankLines)

RECURSIVE SumField(_, _)
SumField(stats, useChars) ==
    IF stats = <<>> THEN 0
    ELSE (IF useChars THEN Head(stats).characters ELSE Head(stats).lines)
         + SumField(Tail(stats), useChars)

\* The percentage rounded up instead of to the nearest integer.
RoundPercentUp(countValue, totalValue) ==
    (100 * countValue + totalValue - 1) \div totalValue

\* Math.round((countValue / totalValue) * 100): the double computation and
\* this integer one agree for every total below 40.
RoundPercent(countValue, totalValue) ==
    (200 * countValue + totalValue) \div (2 * totalValue)

\* The value the comparator of the sort reads (metrics.ts:65-70).
SortKey(m, countMode) ==
    IF countMode = "characters" THEN m.characters ELSE m.lines

\* The insertion without the comparison: the entries stay in Map order.
InsertUnsorted(sorted, m, countMode) == Append(sorted, m)

\* Array.prototype.sort with comparator b - a: stable, descending.
RECURSIVE InsertSorted(_, _, _)
InsertSorted(sorted, m, countMode) ==
    IF sorted = <<>> THEN <<m>>
    ELSE IF SortKey(Head(sorted), countMode) >= SortKey(m, countMode)
         THEN <<Head(sorted)>> \o InsertSorted(Tail(sorted), m, countMode)
         ELSE <<m>> \o sorted

RECURSIVE SortMetrics(_, _, _)
SortMetrics(sorted, rest, countMode) ==
    IF rest = <<>> THEN sorted
    ELSE SortMetrics(InsertSorted(sorted, Head(rest), countMode), Tail(rest),
                     countMode)

\* config is the 'gitFlex' configuration the calculator reads
\* (metrics.ts:17-19).
calculateContributions(blameData, config) ==
    IF Len(blameData) = 0 THEN <<>>
    ELSE
      LET useChars == config.countMode = "characters"
          authorStats == GroupByAuthor(<<>>, blameData, config.ignoreBlankLines)
          totalLines == SumField(authorStats, FALSE)
          totalCharacters == SumField(authorStats, TRUE)
          totalValue == IF useChars THEN totalCharacters ELSE totalLines
          metrics ==
            [i \in 1..Len(authorStats) |->
               LET st == authorStats[i]
                   countValue == IF useChars THEN st.characters ELSE st.lines
               IN  [author |-> st.author, lines |-> st.lines,
                    characters |-> st.characters,
                    percentage |-> IF totalValue > 0
                                   THEN RoundPercent(countValue, totalValue)
                                   ELSE 0]]
      IN  SortMetrics(<<>>, metrics, config.countMode)

(***************************************************************************)
(* ContributorCache (blameParser.ts:159-264)                               *)
(***************************************************************************)

defaultTTL == 30000

maxCacheSize == 100

\* The file contents of the model.
ContentA == <<"x", "\n", "y", "y">>
ContentB == <<"x", "\n", "\n", "z">>

\* crypto.createHash('md5').update(fileContent).digest('hex'): the digests
\* of the model's contents.
md5Hex(fileContent) ==
    CASE fileContent = ContentA ->
           <<"5", "7", "1", "a", "4", "c", "3", "6", "2", "5", "1", "0", "4", "4", "6", "1", "e", "5", "4", "5", "1", "c", "e", "3", "1", "e", "7", "5", "5", "4", "3", "9">>
      [] fileContent = ContentB ->
           <<"b", "0", "8", "c", "9", "c", "4", "c", "b", "7", "6", "9", "c", "8", "7", "6", "6", "5", "3", "9", "0", "2", "a", "4", "0", "8", "a", "b", "4", "6", "d", "f">>

\* stat is the outcome of fs.statSync(filePath): ok is FALSE when it throws.
getCacheKey(filePath, fileContent, stat) ==
    IF stat.ok
    THEN filePath \o <<":">> \o Digits(stat.mtime) \o <<":">>
         \o Digits(stat.size) \o <<":">> \o SubSeq(md5Hex(fileContent), 1, 8)
    ELSE filePath \o <<":", "c", "o", "n", "t", "e", "n", "t", ":">>
         \o md5Hex(fileContent)

\* The Map is the sequence of its entries in insertion order.
KeyIndex(c, key) ==
    IF \E i \in 1..Len(c) : c[i].key = key
    THEN CHOOSE i \in 1..Len(c) : c[i].key = key
    ELSE 0

\* Map.prototype.delete
RemoveAt(c, i) == SubSeq(c, 1, i - 1) \o SubSeq(c, i + 1, Len(c))

Miss(c) == [cache |-> c, hit |-> FALSE, data |-> <<>>]

\* get with the expiry test written >= instead of >.
GetExpiresEarly(c, key, t) ==
    LET i == KeyIndex(c, key)
    IN  IF i = 0 THEN Miss(c)
        ELSE IF t - c[i].timestamp >= c[i].ttl THEN Miss(RemoveAt(c, i))
        ELSE [cache |-> c, hit |-> TRUE, data |-> c[i].data]

\* get that renews the entry it returns.
GetRefreshes(c, key, t) ==
    LET i == KeyIndex(c, key)
    IN  IF i = 0 THEN Miss(c)
        ELSE IF t - c[i].timestamp > c[i].ttl THEN Miss(RemoveAt(c, i))
        ELSE [cache |-> [c EXCEPT ![i].timestamp = t], hit |-> TRUE,
              data |-> c[i].data]

\* get(key) at time t: the cache afterwards and the value returned
\* (hit FALSE is null).
get(c, key, t) ==
    LET i == KeyIndex(c, key)
    IN  IF i = 0 THEN Miss(c)
        ELSE IF t - c[i].timestamp > c[i].ttl THEN Miss(RemoveAt(c, i))
        ELSE [cache |-> c, hit |-> TRUE, data |-> c[i].data]

\* Map.prototype.set: a present key keeps its place.
MapSet(c, key, entry) ==
    LET i == KeyIndex(c, key)
    IN  IF i = 0 THEN Append(c, entry) ELSE [c EXCEPT ![i] = entry]

\* set that evicts the newest entry instead of the oldest.
SetEvictsNewest(c, key, data, ttl, t) ==
    LET kept == IF Len(c) >= maxCacheSize THEN RemoveAt(c, Len(c)) ELSE c
    IN  MapSet(kept, key,
               [key |-> key, data |-> data, timestamp |-> t, ttl |-> ttl])

\* set with the size test written > instead of >=.
SetEvictsLate(c, key, data, ttl, t) ==
    LET kept == IF Len(c) > maxCacheSize THEN RemoveAt(c, 1) ELSE c
    IN  MapSet(kept, key,
               [key |-> key, data |-> data, timestamp |-> t, ttl |-> ttl])

\* set(key, data, ttl) at time t
set(c, key, data, ttl, t) ==
    LET kept == IF Len(c) >= maxCacheSize THEN RemoveAt(c, 1) ELSE c
    IN  MapSet(kept, key,
               [key |-> key, data |-> data, timestamp |-> t, ttl |-> ttl])

invalidate(c, filePath) ==
    LET keep(e) == ~StartsWith(e.key, filePath \o <<":">>)
    IN  SelectSeq(c, keep)

clear(c) == <<>>

cleanup(c, t) ==
    LET keep(e) == ~(t - e.timestamp > e.ttl)
    IN  SelectSeq(c, keep)

(***************************************************************************)
(* State                                                                   *)
(***************************************************************************)

VARIABLES
    parseIn,    \* the arguments of a call of parseBlameOutput
                \* (with the blocks the blame output consists of)
    parseOut,   \* its return value, once it has returned
    calcIn,     \* the arguments of a call of calculateContributions
    calcOut,    \* its return value, once it has returned
    cache,      \* ContributorCache.cache: the Map's entries in insertion order
    now,        \* Date.now()
    ticks,      \* how often the clock has advanced
    got,        \* the last direct call of get, set or invalidate: its key or path and its
\* data
    ops,        \* the number of direct calls of the cache's methods
    doc,        \* the text of each open document (document.getText())
    disk,       \* what fs.statSync gives for each file
    activeEditor,   \* vscode.window.activeTextEditor
    debounceTimer,  \* the pending timeouts with the editor each captured, in
                    \* the order they were set; the handle is the last one
    activated,  \* FALSE once deactivate has run
    config,     \* the workspace configuration
    gitHead,    \* the state of the repository git answers from
    git,        \* how a git command ends now: "ok", "ENOENT" or "SIGTERM"
    fileState,  \* what git finds for the files: "clean", "dirty", ...
    tmp,        \* how the temporary directory behaves now
    tempFiles,  \* the temporary files that exist
    req,        \* the calls of updateContributors and showContributors
    statusBar,  \* statusBarItem.text
    events,     \* the number of user and environment events so far
    switches,   \* the number of changes of the active editor so far
    saves,      \* per file, the number of save events so far
    invalidated,    \* per path, the number of calls of cache.invalidate
    writes      \* the number of calls of cache.set and cache.invalidate

parserVars == <<parseIn, parseOut>>
metricsVars == <<calcIn, calcOut>>
cacheVars == <<cache, now, ticks, got, ops>>
hostVars ==
    <<doc, disk, activeEditor, debounceTimer, activated, config, gitHead,
      git, fileState, tmp, tempFiles, req, statusBar, events,
      switches, saves, invalidated, writes>>
vars ==
    <<parseIn, parseOut, calcIn, calcOut, cache, now, ticks, got, ops,
      doc, disk, activeEditor, debounceTimer, activated, config, gitHead,
      git, fileState, tmp, tempFiles, req, statusBar, events,
      switches, saves, invalidated, writes>>

NotCalled == [done |-> FALSE, result |-> <<>>]
Returned(v) == [done |-> TRUE, result |-> v]

ParserIdle == parseIn = <<>> /\ parseOut = NotCalled
MetricsIdle == calcIn = <<>> /\ calcOut = NotCalled
CacheIdle == cache = <<>> /\ now = 0 /\ ticks = 0 /\ got = <<>> /\ ops = 0
HostIdle ==
    /\ doc = <<>> /\ disk = <<>> /\ activeEditor = <<>> /\ debounceTimer = <<>>
    /\ activated = FALSE /\ config = <<>> /\ gitHead = 0 /\ tempFiles = {}
    /\ git = "" /\ fileState = "" /\ tmp = ""
    /\ req = <<>> /\ statusBar = <<>> /\ events = 0 /\ switches = 0
    /\ saves = <<>>
    /\ invalidated = <<>> /\ writes = 0

(***************************************************************************)
(* The parser on bounded inputs                                            *)
(***************************************************************************)

\* The number of blocks of a blame output.
MaxBlocks == 2

AuthorAl == <<"A", "l">>
AuthorBo == <<"B", "o">>
GitNotCommitted == <<"N", "o", "t", " ", "C", "o", "m", "m", "i", "t", "t", "e", "d", " ", "Y", "e", "t">>
MailAddr == <<"<", "a", "@", "x", ">">>
NoLine == <<"-">>

Hex40 == [i \in 1..HashLen |-> IF i % 2 = 0 THEN "a" ELSE "1"]

\* A block of `git blame --line-porcelain`: the revision line with what
\* follows the revision identifier, an author line (NoLine: none), an
\* author-mail line (NoLine: none), a summary line and the content line.
RenderBlock(b) ==
    Hex40 \o b.fields \o <<"\n">>
    \o (IF b.author = NoLine THEN <<>> ELSE KwAuthor \o b.author \o <<"\n">>)
    \o (IF b.mail = NoLine THEN <<>> ELSE KwAuthorMail \o b.mail \o <<"\n">>)
    \o <<"s", "u", "m", "m", "a", "r", "y", " ", "s", "\n">>
    \o <<"\t">> \o b.content \o <<"\n">>

Blk(fields, author, mail, content) ==
    [fields |-> fields, author |-> author, mail |-> mail, content |-> content]

F1 == <<" ", "1", " ", "1", " ", "1">>
F2 == <<" ", "2", " ", "2", " ", "1">>

BlockKinds ==
    { Blk(F1, AuthorAl, NoLine, <<"x">>),
      Blk(F2, AuthorBo, MailAddr, <<"y">>),
      Blk(F1, NoLine, MailAddr, <<"x">>),
      Blk(F1, <<>>, NoLine, <<"x">>),
      Blk(F1, <<" ">>, NoLine, <<"x">>),
      Blk(F1, GitNotCommitted, NoLine, <<"x">>),
      Blk(<<" ", "1", " ", "0", " ", "1">>, AuthorAl, NoLine, <<"x">>),
      Blk(<<" ", "1", " ", "x", " ", "1">>, AuthorAl, NoLine, <<"x">>),
      Blk(<<" ", "1", " ", "9", " ", "1">>, AuthorAl, NoLine, <<"x">>),
      Blk(<<>>, AuthorAl, NoLine, <<"x">>),
      Blk(F2, AuthorAl, NoLine, <<>>),
      Blk(F2, NoLine, NoLine, <<"y">>) }

\* What git prints instead of blocks when it cannot blame the file.
Garbage == <<"f", "a", "t", "a", "l", ":", " ", "x", "\n">>

RECURSIVE RenderBlocks(_)
RenderBlocks(bs) ==
    IF bs = <<>> THEN <<>> ELSE RenderBlock(Head(bs)) \o RenderBlocks(Tail(bs))

BlockSeqs == UNION {[1..n -> BlockKinds] : n \in 0..MaxBlocks}

RawOutputs == {RenderBlocks(bs) : bs \in BlockSeqs} \cup {Garbage}

ParserContents ==
    { <<>>, <<" ", "\n">>, <<"x">>, ContentA, ContentB, <<"x", "\n">> }

\* The arguments of a call; blocks are the blocks the blame output was
\* rendered from (none for Garbage).
ParserInputs ==
    { [blameOutput |-> RenderBlocks(bs), fileContent |-> c, blocks |-> bs] :
        bs \in BlockSeqs, c \in ParserContents }
    \cup { [blameOutput |-> Garbage, fileContent |-> c, blocks |-> <<>>] :
             c \in ParserContents }

ParserInit ==
    /\ parseIn \in ParserInputs
    /\ parseOut = NotCalled
    /\ MetricsIdle /\ CacheIdle /\ HostIdle

Parse ==
    /\ ~parseOut.done
    /\ parseOut' = Returned(parseBlameOutput(parseIn.blameOutput,
                                             parseIn.fileContent))
    /\ UNCHANGED <<parseIn, metricsVars, cacheVars, hostVars>>

ParserNext == Parse

SpecParser == ParserInit /\ [][ParserNext]_vars

(***************************************************************************)
(* The aggregator on bounded inputs                                        *)
(***************************************************************************)

\* The number of records of a blame data sequence.
MaxLines == 3

AuthorCy == <<"C", "y">>

LineContents == { <<>>, <<" ">>, <<"a", "b">>, <<"c">> }

LineRecords ==
    [author : {AuthorAl, AuthorBo, AuthorCy}, lineNumber : {1},
     content : LineContents]

BlameDatas == UNION {[1..n -> LineRecords] : n \in 0..MaxLines}

GitFlexConfigs ==
    [countMode : {"lines", "characters"}, ignoreBlankLines : BOOLEAN]

MetricsInit ==
    /\ calcIn \in [blameData : BlameDatas, config : GitFlexConfigs]
    /\ calcOut = NotCalled
    /\ ParserIdle /\ CacheIdle /\ HostIdle

Calculate ==
    /\ ~calcOut.done
    /\ calcOut' = Returned(calculateContributions(calcIn.blameData,
                                                  calcIn.config))
    /\ UNCHANGED <<calcIn, parserVars, cacheVars, hostVars>>

MetricsNext == Calculate

SpecMetrics == MetricsInit /\ [][MetricsNext]_vars

(***************************************************************************)
(* The cache under direct calls of its methods                             *)
(***************************************************************************)

\* The number of direct calls of the cache's methods.
MaxOps == 3

\* The number of times the clock advances.
MaxTicks == 1

\* By how much the clock advances at once (ms).
TickSteps == {defaultTTL, defaultTTL + 1}

PathA == <<"a">>
PathAB == <<"a", ":", "b">>
FillerPath == <<"f">>

StatOf(mtime, content) == [ok |-> TRUE, mtime |-> mtime, size |-> Len(content)]
StatFails == [ok |-> FALSE, mtime |-> 0, size |-> 0]

ProbeKeys ==
    { getCacheKey(PathA, ContentA, StatOf(0, ContentA)),
      getCacheKey(PathAB, ContentA, StatOf(0, ContentA)),
      getCacheKey(PathA, ContentA, StatFails) }

FillerKey(i) == getCacheKey(FillerPath, ContentA, StatOf(i, ContentA))

RankX ==
    <<[author |-> AuthorAl, lines |-> 1, characters |-> 1, percentage |-> 100]>>

Rankings == {<<>>, RankX}

\* The cache after k calls of set at time 0 with k distinct fingerprints.
Prefilled(k) ==
    [i \in 1..k |->
        [key |-> FillerKey(i), data |-> <<>>, timestamp |-> 0,
         ttl |-> defaultTTL]]

CacheInit ==
    /\ cache \in {Prefilled(0), Prefilled(maxCacheSize - 1)}
    /\ now = 0 /\ ticks = 0 /\ got = <<>> /\ ops = 0
    /\ ParserIdle /\ MetricsIdle /\ HostIdle

Tick(d) ==
    /\ ticks < MaxTicks
    /\ now' = now + d
    /\ ticks' = ticks + 1

CallSet(key, data) ==
    /\ ops < MaxOps
    /\ cache' = set(cache, key, data, defaultTTL, now)
    /\ ops' = ops + 1
    /\ got' = <<[call |-> "set", key |-> key, hit |-> FALSE, data |-> data]>>
    /\ UNCHANGED <<now, ticks, parserVars, metricsVars, hostVars>>

CallGet(key) ==
    /\ ops < MaxOps
    /\ LET r == get(cache, key, now)
       IN  /\ cache' = r.cache
           /\ got' = <<[call |-> "get", key |-> key, hit |-> r.hit,
                       data |-> r.data]>>
    /\ ops' = ops + 1
    /\ UNCHANGED <<now, ticks, parserVars, metricsVars, hostVars>>

CallInvalidate(filePath) ==
    /\ ops < MaxOps
    /\ cache' = invalidate(cache, filePath)
    /\ ops' = ops + 1
    /\ got' = <<[call |-> "invalidate", key |-> filePath, hit |-> FALSE,
                data |-> <<>>]>>
    /\ UNCHANGED <<now, ticks, parserVars, metricsVars, hostVars>>

CallClear ==
    /\ ops < MaxOps
    /\ cache' = clear(cache)
    /\ ops' = ops + 1
    /\ got' = <<>>
    /\ UNCHANGED <<now, ticks, parserVars, metricsVars, hostVars>>

CallCleanup ==
    /\ ops < MaxOps
    /\ cache' = cleanup(cache, now)
    /\ ops' = ops + 1
    /\ got' = <<>>
    /\ UNCHANGED <<now, ticks, parserVars, metricsVars, hostVars>>

CacheTick ==
    /\ \E d \in TickSteps : Tick(d)
    /\ UNCHANGED <<cache, got, ops, parserVars, metricsVars, hostVars>>

CacheNext ==
    \/ \E key \in ProbeKeys, data \in Rankings : CallSet(key, data)
    \/ \E key \in ProbeKeys \cup {FillerKey(1)} : CallGet(key)
    \/ \E filePath \in {PathA, PathAB, FillerPath} : CallInvalidate(filePath)
    \/ CallClear
    \/ CallCleanup
    \/ CacheTick

SpecCache == CacheInit /\ [][CacheNext]_vars

(***************************************************************************)
(* gitRunner.ts and extension.ts: the host handlers and the requests       *)
(***************************************************************************)

\* The number of calls of updateContributors and showContributors.
MaxReq == 2

\* The number of user and environment events other than a change of the
\* active editor (edits, saves, changes of the configuration, of the
\* repository, of git and of the temporary directory, the passing of time,
\* deactivation).
MaxEvents == 1

\* The number of changes of the active editor.
MaxSwitches == 1

\* The number of states of the repository.
NumHeads == 2

Paths == {PathA, PathAB}
NoEditor == <<>>
Contents == {ContentA, ContentB}

\* The default of maxFileSizeKB (extension.ts:86) and the bytes of a KB
\* (extension.ts:87).
DefaultMaxFileSizeKB == 2048
BytesPerKB == 1024

DefaultConfig ==
    [maxFileSizeKB |-> DefaultMaxFileSizeKB, countMode |-> "lines",
     ignoreBlankLines |-> FALSE]

\* The settings one change of the configuration can lead to.
ConfigChanges(c) ==
    { [c EXCEPT !.maxFileSizeKB = IF @ = 0 THEN DefaultMaxFileSizeKB ELSE 0],
      [c EXCEPT !.countMode = IF @ = "lines" THEN "characters" ELSE "lines"],
      [c EXCEPT !.ignoreBlankLines = ~@] }

\* What `git blame --line-porcelain` prints for a content in a state of the
\* repository.
BlameOutput(head, content) ==
    IF content = ContentA
    THEN IF head = 1
         THEN RenderBlocks(<<Blk(F1, AuthorAl, NoLine, <<"x">>),
                             Blk(F2, AuthorBo, MailAddr, <<"y", "y">>)>>)
         ELSE RenderBlocks(<<Blk(F1, AuthorBo, MailAddr, <<"x">>),
                             Blk(F2, AuthorBo, MailAddr, <<"y", "y">>)>>)
    ELSE IF head = 1
         THEN RenderBlocks(<<Blk(F1, AuthorAl, NoLine, <<"x">>),
                             Blk(F2, AuthorAl, NoLine, <<>>),
                             Blk(<<" ", "3", " ", "3", " ", "1">>, AuthorBo,
                                 MailAddr, <<"z">>)>>)
         ELSE <<>>

\* How a git command ends: with output, with a non-zero exit code, with the
\* executable missing (ENOENT), or killed at the timeout (SIGTERM).
GitFaults == {"ENOENT", "SIGTERM"}
GitStates == {"ok"} \cup GitFaults

\* What git finds for the files of the model: tracked and unmodified,
\* modified, outside of any repository, or tracked with a blame that exits
\* with an error (its output exceeds maxBuffer).
FileStates == {"clean", "dirty", "outside", "unblamable"}

\* git rev-parse --show-toplevel
RevParseOutcome ==
    IF git # "ok" THEN git ELSE IF fileState = "outside" THEN "failed" ELSE "ok"

\* git ls-files --error-unmatch
LsFilesOutcome ==
    IF git # "ok" THEN git ELSE IF fileState = "outside" THEN "failed" ELSE "ok"

\* git status --porcelain: "ok" with output, "empty" with none
StatusOutcome ==
    IF git # "ok" THEN git
    ELSE IF fileState = "outside" THEN "failed"
    ELSE IF fileState = "dirty" THEN "ok" ELSE "empty"

\* git blame --line-porcelain
BlameOutcome ==
    IF git # "ok" THEN git
    ELSE IF fileState \in {"outside", "unblamable"} THEN "failed" ELSE "ok"

\* isInGitRepository, isFileTracked, isFileModified (gitRunner.ts:11-53):
\* every failure is caught and gives false.
isInGitRepository(o) == o = "ok"
isFileTracked(o) == o = "ok"
isFileModified(o) == o = "ok"

\* The temporary directory: files are written and removed ("ok"),
\* writeFileSync fails before the file exists ("notCreated") or after it was
\* created ("partial"), or unlinkSync fails ("stuck").
TmpStates == {"ok", "notCreated", "partial", "stuck"}

\* statusBarItem.text
BarIdle == [text |-> "Top: -", author |-> <<>>, percentage |-> 0]
BarTooLarge == [text |-> "Top: File too large", author |-> <<>>, percentage |-> 0]
BarNoGit == [text |-> "Top: No Git", author |-> <<>>, percentage |-> 0]
BarError == [text |-> "Top: Error", author |-> <<>>, percentage |-> 0]
BarNoData == [text |-> "Top: No data", author |-> <<>>, percentage |-> 0]

\* updateStatusBar (extension.ts:131-147)
updateStatusBar(contributors) ==
    IF Len(contributors) = 0 THEN BarNoData
    ELSE [text |-> "Top: author (percentage%)",
          author |-> contributors[1].author,
          percentage |-> contributors[1].percentage]

\* fileSizeKB > maxSizeKB (extension.ts:87-89), for an ASCII content.
TooLarge(content, c) == Len(content) > c.maxFileSizeKB * BytesPerKB

Ids == 1..Len(req)

DoneIds == {i \in Ids : req[i].pc = "done"}

\* A call that has just started; the fields from `oversize` on record when
\* the call did what, for the properties.
NewRequest(kind, filePath, content, nSaves, nInvalidated) ==
    [kind |-> kind, pc |-> "repo", phase |-> "rank", path |-> filePath,
     content |-> content, key |-> <<>>, isTracked |-> FALSE,
     temp |-> FALSE, head |-> 0, selected |-> <<>>,
     outcome |-> "none", source |-> "none", result |-> <<>>,
     gitCalls |-> 1, blameCalls |-> 0, fault |-> FALSE,
     oversize |-> TooLarge(content, config),
     unserved |-> nSaves > nInvalidated,
     dispatchInv |-> nInvalidated, prior |-> DoneIds,
     lookupAt |-> -1, lookupWrite |-> -1, storedAt |-> -1,
     storedWrite |-> 0, fetchInv |-> -1, failCalls |-> 0, failWrite |-> -1]

Finish(r, outcome) == [r EXCEPT !.pc = "done", !.outcome = outcome]

\* The synchronous start of updateContributors (extension.ts:79-96): the
\* requests and the status bar afterwards. nSaves and nInvalidated are the
\* numbers of saves and of invalidations of the path so far.
updateContributors(filePath, nSaves, nInvalidated) ==
    LET r == NewRequest("update", filePath, doc[filePath], nSaves, nInvalidated)
    IN  IF TooLarge(doc[filePath], config)
        THEN [req |-> Append(req, [Finish(r, "tooLarge") EXCEPT !.gitCalls = 0]),
              statusBar |-> BarTooLarge]
        ELSE [req |-> Append(req, r), statusBar |-> statusBar]

HostInit ==
    /\ doc = [p \in Paths |-> ContentA]
    /\ disk = [p \in Paths |-> StatOf(0, ContentA)]
    /\ activeEditor = PathA
    /\ debounceTimer = <<PathA>>
    /\ activated = TRUE
    /\ config = DefaultConfig
    /\ gitHead = 1
    /\ git = "ok" /\ fileState = "dirty" /\ tmp = "ok"
    /\ tempFiles = {}
    /\ req = <<>>
    /\ statusBar = BarIdle
    /\ events = 0
    /\ switches = 0
    /\ saves = [p \in Paths |-> 0]
    /\ invalidated = [p \in Paths |-> 0]
    /\ writes = 0
    /\ cache = <<>> /\ now = 0 /\ ticks = 0 /\ got = <<>> /\ ops = 0
    /\ ParserIdle /\ MetricsIdle

unusedVars == <<parseIn, parseOut, calcIn, calcOut, got, ops>>
envVars == <<gitHead, git, fileState, tmp>>

\* A handleEditorChange that sets its timeout without clearing the pending
\* one.
KeepTimeout(pending) == pending

\* clearTimeout(debounceTimer) (extension.ts:50-52 and 56-58): the timeout
\* the handle names is cancelled when it is still pending.
clearTimeout(pending) ==
    IF pending = <<>> THEN pending ELSE SubSeq(pending, 1, Len(pending) - 1)

\* debounceTimer = setTimeout(..., 300) (extension.ts:60-67)
setTimeout(pending, editor) == Append(pending, editor)

\* handleEditorChange (extension.ts:55-68)
handleEditorChange(editor) ==
    /\ activated /\ switches < MaxSwitches
    /\ editor # activeEditor
    /\ activeEditor' = editor
    /\ debounceTimer' = setTimeout(clearTimeout(debounceTimer), editor)
    /\ switches' = switches + 1
    /\ UNCHANGED <<doc, disk, activated, config, envVars, tempFiles, req,
                   statusBar, events, saves, invalidated, writes, cache, now, ticks,
                   unusedVars>>

\* The callback of the timeout (extension.ts:60-67)
TimerFires ==
    /\ debounceTimer # <<>>
    /\ debounceTimer' = Tail(debounceTimer)
    /\ IF debounceTimer[1] = NoEditor
       THEN /\ statusBar' = BarIdle
            /\ UNCHANGED req
       ELSE /\ Len(req) < MaxReq
            /\ LET e == debounceTimer[1]
                   u == updateContributors(e, saves[e], invalidated[e])
               IN  req' = u.req /\ statusBar' = u.statusBar
    /\ UNCHANGED <<doc, disk, activeEditor, activated, config, envVars,
                   tempFiles, events, saves, invalidated, writes, cache, now,
                   ticks, unusedVars, switches>>

\* deactivate (extension.ts:49-53); the subscriptions are disposed with it.
deactivate ==
    /\ activated /\ events < MaxEvents
    /\ activated' = FALSE
    /\ debounceTimer' = clearTimeout(debounceTimer)
    /\ events' = events + 1
    /\ UNCHANGED <<doc, disk, activeEditor, config, envVars, tempFiles, req,
                   statusBar, saves, invalidated, writes, cache, now, ticks,
                   unusedVars, switches>>

\* The file is written, then handleDocumentSave runs (extension.ts:70-77).
handleDocumentSave(document) ==
    /\ activated /\ events < MaxEvents
    /\ events' = events + 1
    /\ disk' = [disk EXCEPT ![document] = StatOf(now, doc[document])]
    /\ saves' = [saves EXCEPT ![document] = @ + 1]
    /\ IF activeEditor # NoEditor /\ activeEditor = document
       THEN /\ Len(req) < MaxReq
            /\ cache' = invalidate(cache, document)
            /\ invalidated' = [invalidated EXCEPT ![document] = @ + 1]
            /\ writes' = writes + 1
            /\ LET u == updateContributors(activeEditor, saves[document] + 1,
                                            invalidated[document] + 1)
               IN  req' = u.req /\ statusBar' = u.statusBar
       ELSE UNCHANGED <<cache, invalidated, writes, req, statusBar>>
    /\ UNCHANGED <<doc, activeEditor, debounceTimer, activated, config,
                   envVars, tempFiles, now, ticks, unusedVars, switches>>

\* The synchronous start of showContributors (extension.ts:149-161)
showContributors ==
    /\ activated /\ Len(req) < MaxReq
    /\ req' = Append(req,
          IF activeEditor = NoEditor
          THEN [Finish(NewRequest("show", NoEditor, <<>>, 0, 0), "noFile")
                  EXCEPT !.gitCalls = 0, !.oversize = FALSE]
          ELSE NewRequest("show", activeEditor, doc[activeEditor],
                          saves[activeEditor], invalidated[activeEditor]))
    /\ UNCHANGED <<doc, disk, activeEditor, debounceTimer, activated, config,
                   envVars, tempFiles, statusBar, events, saves, invalidated,
                   writes, cache, now, ticks, unusedVars, switches>>

\* What the status bar shows when an update call ends; a show call leaves
\* the status bar alone.
BarAfter(r, bar) == IF r.kind = "update" THEN bar ELSE statusBar

\* The call goes on with the contributors it has (extension.ts:108-109 and
\* 121-122, 177-192): an update call shows them and ends, a show call ends
\* when there are none and opens the QuickPick otherwise.
WithContributors(r, contributors, source) ==
    LET s == [r EXCEPT !.result = contributors, !.source = source]
    IN  IF r.kind = "update" THEN Finish(s, "ranking")
        ELSE IF Len(contributors) = 0 THEN Finish(s, "noData")
        ELSE [s EXCEPT !.pc = "pick"]

\* git rev-parse has ended: extension.ts:96-113 and 161-172 up to the call
\* of isFileTracked.
RepoChecked(i) ==
    /\ req[i].pc = "repo"
    /\ LET o == RevParseOutcome
           r == [req[i] EXCEPT !.fault = @ \/ o \in GitFaults]
       IN  IF ~isInGitRepository(o)
           THEN /\ req' = [req EXCEPT ![i] = Finish(r, "noGit")]
                /\ statusBar' = BarAfter(r, BarNoGit)
                /\ UNCHANGED cache
           ELSE LET cacheKey == getCacheKey(r.path, r.content, disk[r.path])
                    cached == get(cache, cacheKey, now)
                    l == [r EXCEPT !.key = cacheKey, !.lookupAt = now,
                                   !.lookupWrite = writes]
                IN  /\ cache' = cached.cache
                    /\ IF cached.hit
                       THEN /\ req' = [req EXCEPT ![i] =
                                     WithContributors(l, cached.data, "cache")]
                            /\ statusBar' =
                                 BarAfter(r, updateStatusBar(cached.data))
                       ELSE /\ req' = [req EXCEPT ![i] =
                                     [l EXCEPT !.pc = "tracked",
                                               !.gitCalls = @ + 1]]
                            /\ UNCHANGED statusBar
    /\ UNCHANGED <<doc, disk, activeEditor, debounceTimer, activated, config,
                   envVars, tempFiles, events, saves, invalidated, writes,
                   now, ticks, unusedVars, switches>>

\* git ls-files has ended (blameParser.ts:15-16)
TrackedChecked(i) ==
    /\ req[i].pc = "tracked"
    /\ LET o == LsFilesOutcome
       IN  req' = [req EXCEPT ![i] =
             [@ EXCEPT !.isTracked = isFileTracked(o), !.pc = "modified",
                       !.fault = @ \/ o \in GitFaults, !.gitCalls = @ + 1]]
    /\ UNCHANGED <<doc, disk, activeEditor, debounceTimer, activated, config,
                   envVars, tempFiles, statusBar, events, saves, invalidated,
                   writes, cache, now, ticks, unusedVars, switches>>

\* A catch block that reports no data instead of the error.
FailedAsNoData(r) == Finish(r, "noData")

\* The call ends in a catch block (extension.ts:124-128, 208-210, 212-215);
\* the locals of getBlameData are gone.
Failed(r) ==
    Finish([r EXCEPT !.isTracked = FALSE, !.temp = FALSE, !.head = 0],
           IF r.phase = "nav" THEN "navError" ELSE "error")

\* git status has ended: blameParser.ts:16-27 up to the start of git blame,
\* which reads the repository as it is now.
ModifiedChecked(i) ==
    /\ req[i].pc = "modified"
    /\ LET o == StatusOutcome
           r == [req[i] EXCEPT !.fault = @ \/ o \in GitFaults]
           needsTemp == ~r.isTracked \/ isFileModified(o)
           tempFile == <<i, r.phase>>
       IN  IF needsTemp /\ tmp \in {"notCreated", "partial"}
           THEN /\ tempFiles' = IF tmp = "partial"
                                THEN tempFiles \cup {tempFile} ELSE tempFiles
                /\ req' = [req EXCEPT ![i] = Failed(r)]
                /\ statusBar' = BarAfter(r, BarError)
           ELSE /\ tempFiles' = IF needsTemp
                                THEN tempFiles \cup {tempFile} ELSE tempFiles
                /\ req' = [req EXCEPT ![i] =
                      [r EXCEPT !.temp = needsTemp, !.pc = "blame",
                                !.isTracked = FALSE, !.head = gitHead,
                                !.fetchInv = invalidated[r.path],
                                !.gitCalls = @ + 1, !.blameCalls = @ + 1]]
                /\ UNCHANGED statusBar
    /\ UNCHANGED <<doc, disk, activeEditor, debounceTimer, activated, config,
                   envVars, events, saves, invalidated, writes, cache, now,
                   ticks, unusedVars, switches>>

\* blameData.find(b => b.author === selected.label) (extension.ts:198)
HasLineOf(blameData, author) ==
    \E k \in 1..Len(blameData) : blameData[k].author = author

\* git blame has ended: getBlame's catch (gitRunner.ts:79-87), the parse and
\* the finally block of getBlameData (blameParser.ts:30-41), then
\* extension.ts:116-128, 173-192 or 198-210.
BlameEnded(i) ==
    /\ req[i].pc = "blame"
    /\ LET o == BlameOutcome
           tempFile == <<i, req[i].phase>>
           r == [req[i] EXCEPT !.temp = FALSE, !.head = 0]
       IN
       /\ tempFiles' = IF req[i].temp /\ tmp # "stuck"
                       THEN tempFiles \ {tempFile} ELSE tempFiles
       /\ IF o # "ok"
          THEN /\ req' = [req EXCEPT ![i] =
                     Failed([r EXCEPT !.fault = @ \/ o \in GitFaults,
                                      !.failCalls = r.blameCalls,
                                      !.failWrite = writes])]
               /\ statusBar' = BarAfter(r, BarError)
               /\ UNCHANGED <<cache, writes>>
          ELSE LET blameData ==
                     parseBlameOutput(BlameOutput(req[i].head, r.content),
                                      r.content)
               IN  IF r.phase = "nav"
                   THEN /\ req' = [req EXCEPT ![i] =
                              Finish(r, IF HasLineOf(blameData, r.selected)
                                        THEN "navigated" ELSE "noLines")]
                        /\ UNCHANGED <<cache, writes, statusBar>>
                   ELSE LET contributors ==
                              calculateContributions(blameData, config)
                        IN  /\ cache' = set(cache, r.key, contributors,
                                            defaultTTL, now)
                            /\ writes' = writes + 1
                            /\ req' = [req EXCEPT ![i] =
                                  WithContributors(
                                    [r EXCEPT !.storedAt = now,
                                              !.storedWrite = writes + 1],
                                    contributors, "fresh")]
                            /\ statusBar' =
                                 BarAfter(r, updateStatusBar(contributors))
    /\ UNCHANGED <<doc, disk, activeEditor, debounceTimer, activated, config,
                   envVars, events, saves, invalidated, now, ticks,
                   unusedVars, switches>>

\* The QuickPick is closed (extension.ts:189-197): dismissed (k = 0), or with
\* the k-th contributor selected, which starts getBlameData again.
Picked(i, k) ==
    /\ req[i].pc = "pick"
    /\ req' = [req EXCEPT ![i] =
          IF k = 0 THEN Finish(@, "shown")
          ELSE [@ EXCEPT !.phase = "nav", !.pc = "tracked",
                         !.selected = req[i].result[k].author,
                         !.gitCalls = @ + 1]]
    /\ UNCHANGED <<doc, disk, activeEditor, debounceTimer, activated, config,
                   envVars, tempFiles, statusBar, events, saves, invalidated,
                   writes, cache, now, ticks, unusedVars, switches>>

\* The user edits the active document.
Edit(content) ==
    /\ events < MaxEvents
    /\ activeEditor # NoEditor
    /\ doc[activeEditor] # content
    /\ doc' = [doc EXCEPT ![activeEditor] = content]
    /\ events' = events + 1
    /\ UNCHANGED <<disk, activeEditor, debounceTimer, activated, config,
                   envVars, tempFiles, req, statusBar, saves, invalidated,
                   writes, cache, now, ticks, unusedVars, switches>>

\* The user changes a setting.
ConfigChanged(c) ==
    /\ events < MaxEvents
    /\ config' = c
    /\ events' = events + 1
    /\ UNCHANGED <<doc, disk, activeEditor, debounceTimer, activated, envVars,
                   tempFiles, req, statusBar, saves, invalidated, writes,
                   cache, now, ticks, unusedVars, switches>>

\* The repository changes (a commit, a checkout).
RepositoryChanged(h) ==
    /\ events < MaxEvents
    /\ h # gitHead
    /\ gitHead' = h
    /\ events' = events + 1
    /\ UNCHANGED <<doc, disk, activeEditor, debounceTimer, activated, config,
                   git, fileState, tmp, tempFiles, req, statusBar, saves,
                   invalidated, writes, cache, now, ticks, unusedVars,
                   switches>>

\* The git executable disappears from the PATH, starts to hang, or works
\* again.
GitChanged(g) ==
    /\ events < MaxEvents
    /\ g # git
    /\ git' = g
    /\ events' = events + 1
    /\ UNCHANGED <<doc, disk, activeEditor, debounceTimer, activated, config,
                   gitHead, fileState, tmp, tempFiles, req, statusBar, saves,
                   invalidated, writes, cache, now, ticks, unusedVars,
                   switches>>

\* The work tree changes: the files are committed, modified, moved out of
\* the repository, or grow a history too long for the buffer.
FilesChanged(f) ==
    /\ events < MaxEvents
    /\ f # fileState
    /\ fileState' = f
    /\ events' = events + 1
    /\ UNCHANGED <<doc, disk, activeEditor, debounceTimer, activated, config,
                   gitHead, git, tmp, tempFiles, req, statusBar, saves,
                   invalidated, writes, cache, now, ticks, unusedVars,
                   switches>>

\* The temporary directory changes: it fills up, loses a permission, or
\* works again.
TmpChanged(t) ==
    /\ events < MaxEvents
    /\ t # tmp
    /\ tmp' = t
    /\ events' = events + 1
    /\ UNCHANGED <<doc, disk, activeEditor, debounceTimer, activated, config,
                   gitHead, git, fileState, tempFiles, req, statusBar, saves,
                   invalidated, writes, cache, now, ticks, unusedVars,
                   switches>>

\* Time passes.
TimePasses ==
    /\ events < MaxEvents
    /\ \E d \in TickSteps : Tick(d)
    /\ events' = events + 1
    /\ UNCHANGED <<cache, got, ops, parserVars, metricsVars, doc, disk,
                   activeEditor, debounceTimer, activated, config, envVars,
                   tempFiles, req, statusBar, saves, invalidated, writes,
                   switches>>

Next ==
    \/ \E editor \in Paths \cup {NoEditor} : handleEditorChange(editor)
    \/ TimerFires
    \/ deactivate
    \/ \E document \in Paths : handleDocumentSave(document)
    \/ showContributors
    \/ \E i \in Ids : RepoChecked(i)
    \/ \E i \in Ids : TrackedChecked(i)
    \/ \E i \in Ids : ModifiedChecked(i)
    \/ \E i \in Ids : BlameEnded(i)
    \/ \E i \in Ids, k \in 0..2 : k <= Len(req[i].result) /\ Picked(i, k)
    \/ \E content \in Contents : Edit(content)
    \/ \E c \in ConfigChanges(config) : ConfigChanged(c)
    \/ \E h \in 1..NumHeads : RepositoryChanged(h)
    \/ \E g \in GitStates : GitChanged(g)
    \/ \E f \in FileStates : FilesChanged(f)
    \/ \E t \in TmpStates : TmpChanged(t)
    \/ TimePasses

Spec == HostInit /\ [][Next]_vars

(***************************************************************************)
(* Properties                                                              *)
(***************************************************************************)

WhitespaceOnly(s) == \A i \in 1..Len(s) : IsWs(s[i])

ExternalFile == <<"E", "x", "t", "e", "r", "n", "a", "l", " ", "f", "i", "l", "e", " ", "(", "-", "-", "c", "o", "n", "t", "e", "n", "t", "s", ")">>

RECURSIVE TotalLines(_)
TotalLines(ms) == IF ms = <<>> THEN 0 ELSE Head(ms).lines + TotalLines(Tail(ms))

\* The records calculateContributions is to count.
CountedRecords(blameData, ignoreBlankLines) ==
    {i \in 1..Len(blameData) :
        ~(ignoreBlankLines /\ WhitespaceOnly(blameData[i].content))}

\* C10: for a non-empty input the lines of the returned entries sum to the
\* number of input records (of the records that are not whitespace-only when
\* ignoreBlankLines is set), each entry's lines is the number of counted
\* records of its author, and every counted author has an entry.
C10_LineConservation ==
    (calcOut.done /\ Len(calcIn.blameData) > 0)
    => LET data == calcIn.blameData
           counted == CountedRecords(data, calcIn.config.ignoreBlankLines)
           ms == calcOut.result
       IN  /\ TotalLines(ms) = Cardinality(counted)
           /\ \A k \in 1..Len(ms) :
                 ms[k].lines =
                   Cardinality({i \in counted : data[i].author = ms[k].author})
           /\ \A i \in counted : \E k \in 1..Len(ms) :
                 ms[k].author = data[i].author

\* Blank and non-blank records of two authors, aggregated with
\* ignoreBlankLines set.
C10_Witness ==
    /\ calcOut.done
    /\ calcIn.config.ignoreBlankLines
    /\ Len(calcIn.blameData) = 3
    /\ \E i \in 1..3 : WhitespaceOnly(calcIn.blameData[i].content)
    /\ Len(calcOut.result) = 2

\* C4: the cache never holds more than maxCacheSize entries.
C4_CacheBound == Len(cache) <= maxCacheSize

\* The cache is full after more than maxCacheSize distinct fingerprints were
\* inserted: the first one has been evicted for the last one.
C4_Witness ==
    /\ Len(cache) = maxCacheSize
    /\ KeyIndex(cache, FillerKey(1)) = 0
    /\ KeyIndex(cache, FillerKey(2)) = 1
    /\ cache[maxCacheSize].key \in ProbeKeys

Done(i) == req[i].pc = "done"

ErrorOutcomes == {"error", "navError"}

\* Call i has obtained a ranking; the ranking phase of the call is over.
Ranked(i) == req[i].source # "none"

\* Call j looked the cache up when the last write to it was the store of
\* call i under the same fingerprint, at most defaultTTL later.
ServedBy(i, j) ==
    /\ i # j
    /\ req[i].storedWrite # 0
    /\ req[j].lookupWrite = req[i].storedWrite
    /\ req[j].key = req[i].key
    /\ req[j].lookupAt - req[i].storedAt <= defaultTTL

\* C1 as stated: when a call for a path and content follows a finished call
\* for the same path and content that returned a ranking, with no
\* invalidate of the path in between, it returns the same ranking from a
\* cache hit and runs no git command at all.
C1_AsStated ==
    \A i, j \in Ids :
        (/\ i \in req[j].prior /\ Done(j) /\ Ranked(i)
         /\ req[i].path = req[j].path /\ req[i].content = req[j].content
         /\ req[i].dispatchInv = req[j].dispatchInv)
        => (/\ req[j].source = "cache"
            /\ req[j].result = req[i].result
            /\ req[j].gitCalls = 0)

\* C1: when a call looks up the fingerprint another call stored, no
\* cache.set or cache.invalidate has happened since that store, and at most
\* defaultTTL ms have passed, the call gets the stored ranking from the cache
\* and obtains it with one git command, the repository check, and no git
\* blame.
C1_Idempotence ==
    \A i, j \in Ids :
        ServedBy(i, j)
        => (/\ req[j].source = "cache"
            /\ req[j].result = req[i].result
            /\ req[j].phase = "rank" => (req[j].gitCalls = 1 /\ req[j].blameCalls = 0))

\* A call is served from the cache exactly defaultTTL ms after the store.
C1_Witness ==
    \E i, j \in Ids :
        /\ ServedBy(i, j) /\ Done(j)
        /\ req[j].lookupAt - req[i].storedAt = defaultTTL
        /\ req[j].source = "cache"

\* Call i stored the entry that call j found in the cache.
Producer(i, j) ==
    /\ i # j
    /\ req[i].storedWrite # 0
    /\ req[i].key = req[j].key
    /\ req[i].storedWrite <= req[j].lookupWrite
    /\ \A k \in Ids :
          (req[k].key = req[j].key /\ req[k].storedWrite <= req[j].lookupWrite)
          => req[k].storedWrite <= req[i].storedWrite

\* Call j is the first call for its path after the last invalidate of it.
NextAfterInvalidate(j) ==
    /\ req[j].dispatchInv > 0
    /\ \A k \in Ids :
          (k < j /\ req[k].path = req[j].path)
          => req[k].dispatchInv < req[j].dispatchInv

\* C2: the first call for a path after invalidate(path) never returns a
\* ranking from a cache entry whose blame was fetched before the
\* invalidation, also when the call that stored the entry was in flight at
\* the invalidation.
C2_Invalidation ==
    \A i, j \in Ids :
        (/\ NextAfterInvalidate(j)
         /\ req[j].source = "cache"
         /\ Producer(i, j))
        => req[i].fetchInv >= req[j].dispatchInv

\* C3: a call for a path is started only when every save of that file so
\* far has been followed by an invalidate of the path.
C3_SaveInvalidates ==
    \A i \in Ids : req[i].path # NoEditor => ~req[i].unserved

\* C5: a call for a content larger than maxFileSizeKB ends at once with the
\* outcome "tooLarge": it runs no git command, looks nothing up in the cache
\* and stores nothing.
C5_SizeShortCircuit ==
    \A i \in Ids :
        req[i].oversize
        => (/\ Done(i) /\ req[i].outcome = "tooLarge"
            /\ req[i].gitCalls = 0
            /\ req[i].lookupWrite = -1
            /\ req[i].storedWrite = 0)

\* C6: when no call is in flight, no temporary file exists.
C6_TempFileCleanup ==
    (\A i \in Ids : Done(i)) => tempFiles = {}

C8_GitUnavailable ==
    \A i \in Ids :
        (Done(i) /\ req[i].fault) => req[i].outcome \in ErrorOutcomes

RECURSIVE SumPercent(_)
SumPercent(ms) ==
    IF ms = <<>> THEN 0 ELSE Head(ms).percentage + SumPercent(Tail(ms))

RECURSIVE SumCount(_, _)
SumCount(ms, countMode) ==
    IF ms = <<>> THEN 0
    ELSE SortKey(Head(ms), countMode) + SumCount(Tail(ms), countMode)

Distance(a, b) == IF a >= b THEN a - b ELSE b - a

PercentagesInRange(ms) ==
    \A i \in 1..Len(ms) : ms[i].percentage \in 0..100

\* C11 as stated: in every non-empty sequence calculateContributions
\* returns, every percentage is an integer in 0..100 and the sum of the N
\* percentages differs from 100 by at most N * 0.5.
C11_AsStated ==
    (calcOut.done /\ Len(calcOut.result) > 0)
    => (/\ PercentagesInRange(calcOut.result)
        /\ 2 * Distance(SumPercent(calcOut.result), 100)
             <= Len(calcOut.result))

\* C11: in every sequence calculateContributions returns, every percentage
\* is an integer in 0..100; when the total of the active count mode is
\* positive the sum of the N percentages differs from 100 by at most
\* N * 0.5, and when the total is zero every percentage is 0.
C11_Percentages ==
    calcOut.done
    => LET ms == calcOut.result
           totalValue == SumCount(ms, calcIn.config.countMode)
       IN  /\ PercentagesInRange(ms)
           /\ totalValue > 0
                => 2 * Distance(SumPercent(ms), 100) <= Len(ms)
           /\ totalValue = 0
                => \A i \in 1..Len(ms) : ms[i].percentage = 0

\* Three authors with one third each: the percentages add up to 99.
C11_Witness ==
    /\ calcOut.done
    /\ Len(calcOut.result) = 3
    /\ calcIn.config.countMode = "characters"
    /\ SumPercent(calcOut.result) = 99

\* The first counted record of an author.
FirstRecordOf(blameData, counted, author) ==
    CHOOSE i \in counted :
        /\ blameData[i].author = author
        /\ \A k \in counted : blameData[k].author = author => i <= k

\* C12: calculateContributions returns one entry per distinct author of the
\* counted records, in non-increasing order of the value of the active count
\* mode, so that the first entry has the maximal value; entries with equal
\* values keep the order in which their authors first appear in the input,
\* which fixes the order for an input and a configuration; the empty input
\* gives the empty sequence.
C12_RankingOrder ==
    calcOut.done
    => LET data == calcIn.blameData
           mode == calcIn.config.countMode
           counted == CountedRecords(data, calcIn.config.ignoreBlankLines)
           ms == calcOut.result
           value(m) == IF mode = "characters" THEN m.characters ELSE m.lines
       IN  /\ Len(data) = 0 => ms = <<>>
           /\ {ms[k].author : k \in 1..Len(ms)}
                = {data[i].author : i \in counted}
           /\ \A k, l \in 1..Len(ms) :
                 k < l =>
                   /\ ms[k].author # ms[l].author
                   /\ value(ms[k]) >= value(ms[l])
                   /\ value(ms[k]) = value(ms[l])
                        => FirstRecordOf(data, counted, ms[k].author)
                           < FirstRecordOf(data, counted, ms[l].author)
           /\ \A k \in 1..Len(ms) : value(ms[1]) >= value(ms[k])

\* The author of the first record has fewer lines than a later author and is
\* ranked second.
C12_Witness ==
    /\ calcOut.done
    /\ calcIn.config.countMode = "lines"
    /\ Len(calcOut.result) = 2
    /\ calcOut.result[1].lines > calcOut.result[2].lines
    /\ calcOut.result[2].author = calcIn.blameData[1].author

\* The step is a direct call of get.
IsGetCall == ops' = ops + 1 /\ got' # <<>> /\ got'[1].call = "get"

\* The entries of the cache with a key.
EntriesOf(c, key) == {i \in 1..Len(c) : c[i].key = key}

\* C13: a call of get(key) returns the stored data exactly when the cache
\* holds an entry for the key with now - timestamp <= ttl, and then leaves
\* the cache, the entry's timestamp included, as it is; otherwise it returns
\* a miss, and it removes the entry, and nothing else, when the entry is
\* present and expired.
C13_LookupExpiry ==
    [][IsGetCall =>
        LET key == got'[1].key
            at == EntriesOf(cache, key)
            live == {i \in at : now - cache[i].timestamp <= cache[i].ttl}
        IN  /\ Cardinality(at) <= 1
            /\ got'[1].hit <=> live # {}
            /\ \A i \in live : got'[1].data = cache[i].data /\ cache' = cache
            /\ at = {} => cache' = cache
            /\ \A i \in at \ live :
                  cache' = [k \in 1..(Len(cache) - 1) |->
                               IF k < i THEN cache[k] ELSE cache[k + 1]]
    ]_vars

\* A lookup exactly defaultTTL ms after the store returns the stored data.
C13_Witness ==
    /\ got # <<>> /\ got[1].call = "get"
    /\ got[1].hit /\ got[1].data = RankX
    /\ now = defaultTTL
    /\ \E i \in EntriesOf(cache, got[1].key) : cache[i].timestamp = 0

\* The step is a direct call of set.
IsSetCall == ops' = ops + 1 /\ got' # <<>> /\ got'[1].call = "set"

KeysOf(c) == {c[i].key : i \in 1..Len(c)}

KeyOrder(c) == [i \in 1..Len(c) |-> c[i].key]

\* The Map after set(key, entry): a present key keeps its place, a new key
\* goes to the end.
Upsert(c, entry) ==
    IF entry.key \in KeysOf(c)
    THEN [i \in 1..Len(c) |-> IF c[i].key = entry.key THEN entry ELSE c[i]]
    ELSE Append(c, entry)

\* C14: a call of set with maxCacheSize or more entries present evicts
\* exactly one entry before it inserts, the one inserted earliest of those
\* present; with fewer entries present it evicts nothing; and a call of get
\* that returns an entry leaves the order of the entries, and so the entry
\* evicted next, as it is.
C14_EvictionPolicy ==
    [][/\ IsSetCall =>
           LET entry == [key |-> got'[1].key, data |-> got'[1].data,
                         timestamp |-> now, ttl |-> defaultTTL]
           IN  IF Len(cache) >= maxCacheSize
               THEN /\ cache' = Upsert(Tail(cache), entry)
                    /\ KeysOf(cache) \ KeysOf(cache') \subseteq {cache[1].key}
                    /\ cache[1].key # entry.key
                         => cache[1].key \notin KeysOf(cache')
               ELSE /\ cache' = Upsert(cache, entry)
                    /\ KeysOf(cache) \subseteq KeysOf(cache')
       /\ (IsGetCall /\ got'[1].hit) => KeyOrder(cache') = KeyOrder(cache)
    ]_vars

\* The cache was full, and the set of a new fingerprint has evicted the entry
\* inserted first and no other.
C14_Witness ==
    /\ got # <<>> /\ got[1].call = "set"
    /\ ops = MaxOps
    /\ Len(cache) = maxCacheSize
    /\ FillerKey(1) \notin KeysOf(cache)
    /\ cache[1].key = FillerKey(2)
    /\ cache[maxCacheSize].key = got[1].key
    /\ cache[maxCacheSize - 1].key \in ProbeKeys

\* The number of lines of a file content (fileLines.length).
NumFileLines(content) ==
    1 + Cardinality({i \in 1..Len(content) : content[i] = "\n"})

\* The author a block names: its author field, or without one the address
\* of its author-mail field without the angle brackets.
OwnAuthor(b) ==
    IF b.author # NoLine /\ b.author # <<>> THEN b.author
    ELSE IF b.mail = NoLine THEN <<>>
    ELSE IF Head(b.mail) = "<" /\ b.mail[Len(b.mail)] = ">"
         THEN SubSeq(b.mail, 2, Len(b.mail) - 1)
    ELSE b.mail

\* The final line number of a block: the third field of its revision line.
FinalLine(b) ==
    LET parts == Split(Hex40 \o b.fields, " ")
    IN  IF Len(parts) >= 3 THEN parseInt(parts[3]) ELSE NaN

\* The block has an author and a final line number within the file.
Acceptable(b, nFileLines) ==
    /\ OwnAuthor(b) # <<>>
    /\ ~FinalLine(b).nan
    /\ FinalLine(b).val \in 1..nFileLines

WellFormed(b, nFileLines) ==
    /\ b.author # NoLine
    /\ Trim(b.author) # <<>>
    /\ ~FinalLine(b).nan
    /\ FinalLine(b).val \in 1..nFileLines

\* C16: for a blame output of well-formed blocks with final line numbers
\* within the file, parseBlameOutput returns one record per block, in the
\* order of the blocks, with the block's final line number and the block's
\* content line without its leading tab, whatever the content of the line,
\* the empty line included.
C16_OneRecordPerBlock ==
    LET n == NumFileLines(parseIn.fileContent)
        bs == parseIn.blocks
    IN  (/\ parseOut.done
         /\ Len(bs) > 0
         /\ \A i \in 1..Len(bs) : WellFormed(bs[i], n))
        => /\ Len(parseOut.result) = Len(bs)
           /\ \A k \in 1..Len(bs) :
                 /\ parseOut.result[k].lineNumber = FinalLine(bs[k]).val
                 /\ parseOut.result[k].content = bs[k].content

\* C17: the author of every record the parsing loop of parseBlameOutput
\* returns is resolved from the author and author-mail fields of the block
\* whose content line and final line number the record has, never from the
\* fields of an earlier block, for every sequence of blocks.
C17_PerBlockState ==
    (/\ parseOut.done
     /\ ParsedBlocks(parseIn.blameOutput, parseIn.fileContent) # <<>>)
    => \A k \in 1..Len(parseOut.result) :
          \E i \in 1..Len(parseIn.blocks) :
             LET b == parseIn.blocks[i]
             IN  /\ OwnAuthor(b) # <<>>
                 /\ parseOut.result[k].author = normalizeAuthor(OwnAuthor(b))
                 /\ parseOut.result[k].lineNumber = FinalLine(b).val
                 /\ parseOut.result[k].content = b.content

\* C18: every call runs the steps in the order CheckSize, CheckRepo,
\* CheckCache and, on a miss, MaterializeIfDirty, FetchHistory, Parse,
\* Aggregate, StoreCache, none skipped: a call for a content over the limit
\* runs no git command; the cache is looked up only after git rev-parse;
\* git blame is started once at most, after a lookup that missed; and a
\* call stores only the ranking it has computed from its own git blame.
C18_StepOrder ==
    \A i \in Ids :
        /\ req[i].oversize => req[i].gitCalls = 0
        /\ req[i].lookupWrite # -1 => req[i].gitCalls >= 1
        /\ req[i].blameCalls <= 1
        /\ req[i].blameCalls = 1
              => (req[i].lookupWrite # -1 /\ req[i].source # "cache")
        /\ req[i].storedWrite # 0
              => (req[i].source = "fresh" /\ req[i].blameCalls >= 1)

\* Calls i and j have both missed the cache for the same fingerprint and
\* both stored: each looked the cache up before the other stored.
BothComputed(i, j) ==
    /\ i # j
    /\ req[i].key = req[j].key
    /\ req[i].storedWrite # 0 /\ req[j].storedWrite # 0
    /\ req[i].lookupWrite < req[j].storedWrite
    /\ req[j].lookupWrite < req[i].storedWrite

\* C19: when two concurrent calls for the same fingerprint have both missed
\* the cache and both stored, the two rankings they stored are equal, so
\* the entry left in the cache does not depend on which store was last.
C19_BenignDuplicates ==
    \A i, j \in Ids : BothComputed(i, j) => req[i].result = req[j].result

\* The calls of updateContributors, in the order of their dispatch.
Updates == {i \in Ids : req[i].kind = "update"}

\* What the status bar shows for the outcome of a finished update call.
BarOf(r) ==
    CASE r.outcome = "tooLarge" -> BarTooLarge
      [] r.outcome = "noGit" -> BarNoGit
      [] r.outcome = "ranking" -> updateStatusBar(r.result)
      [] OTHER -> BarError

\* C20: once every call has ended, with a file in the editor and no timer
\* pending, the status bar shows the outcome of the update call dispatched
\* last and not that of an earlier one, in whatever order the calls ended.
C20_StaleDiscarded ==
    (/\ activated
     /\ activeEditor # NoEditor
     /\ debounceTimer = <<>>
     /\ Updates # {}
     /\ \A i \in Ids : Done(i))
    => LET last == CHOOSE i \in Updates : \A j \in Updates : j <= i
       IN  statusBar = BarOf(req[last])

\* The rankings calculateContributions computes for a content under a
\* configuration, one for each state of the repository.
RankingsUnder(content, c) ==
    { calculateContributions(parseBlameOutput(BlameOutput(h, content), content), c) :
        h \in 1..NumHeads }

\* Call i obtains its ranking in this step, from the cache or computed.
GetsRanking(i) ==
    /\ i \in Ids
    /\ req[i].source = "none"
    /\ req'[i].source # "none"

\* C21: the ranking a call obtains, from the cache or computed, is the
\* ranking calculateContributions computes for its content under the
\* countMode and ignoreBlankLines in force when the call obtains it.
C21_ConfigFreshness ==
    [][\A i \in Ids :
          GetsRanking(i)
          => req'[i].result \in RankingsUnder(req[i].content, config)]_vars

\* The step is a direct call of invalidate.
IsInvalidateCall ==
    ops' = ops + 1 /\ got' # <<>> /\ got'[1].call = "invalidate"

\* The fingerprints getCacheKey gives for a path.
KeysOfPath(filePath) ==
    { getCacheKey(filePath, ContentA, StatOf(i, ContentA)) : i \in 0..maxCacheSize }
    \cup { getCacheKey(filePath, ContentA, StatFails) }

\* C22: a call of invalidate(path) removes every entry whose fingerprint was
\* made for the path, expired or not, and leaves the entries of every other
\* path as they are and in their order, also those of a path that starts
\* with the invalidated path and a colon.
C22_InvalidationFrame ==
    [][IsInvalidateCall
       => LET own(e) == e.key \in KeysOfPath(got'[1].key)
              other(e) == ~own(e)
          IN  cache' = SelectSeq(cache, other)]_vars

\* A timeout fires in this step: the extension stays active and a pending
\* timeout is gone.
IsTimerFire ==
    /\ activated' = activated
    /\ debounceTimer # <<>>
    /\ debounceTimer' = Tail(debounceTimer)

\* C23: at most one timeout is pending at any time and none after
\* deactivate; a timeout that fires is the one of the last editor change: it
\* starts one call of updateContributors for the editor that is active, or
\* resets the status bar when there is none, so that an editor change
\* followed by another before its timeout fires starts no call.
C23_Debounce ==
    /\ [](Len(debounceTimer) <= 1 /\ (~activated => debounceTimer = <<>>))
    /\ [][IsTimerFire
          => IF activeEditor = NoEditor
             THEN req' = req /\ statusBar' = BarIdle
             ELSE /\ Len(req') = Len(req) + 1
                  /\ SubSeq(req', 1, Len(req)) = req
                  /\ req'[Len(req')].kind = "update"
                  /\ req'[Len(req')].path = activeEditor]_vars

\* The editor changed from a to a:b while the timeout of a was pending, and
\* the only call started is the update for a:b: the timeout of a was
\* cancelled.
C23_Witness ==
    /\ activated
    /\ switches = 1
    /\ activeEditor = PathAB
    /\ debounceTimer = <<>>
    /\ Len(req) = 1
    /\ req[1].kind = "update"
    /\ req[1].path = PathAB

=============================================================================
